---- MODULE Spec2Model ----
(***************************************************************************)
(* Model of Advance_Calculator.py: the SafeEvaluator (string rewriting,    *)
(* parsing, whitelisted tree evaluation) and the CalcApp state machine     *)
(* that drives it.  Of the widgets, the model keeps the entry text, the    *)
(* history lines, the Ans label and the last error dialog; the info label, *)
(* which no handler reads, is left out.  The insertion cursor of the entry *)
(* is at the end of its text: no handler of the source moves it.           *)
(*                                                                         *)
(* A Python str is a sequence of one-character strings.  Python indices    *)
(* are kept 0-based in the loops (s[i] is written s[i + 1]).               *)
(***************************************************************************)
EXTENDS Integers, Sequences, FiniteSets, TLC

VARIABLES
    entry,        \* CalcApp.entry text
    deg_mode,     \* CalcApp.deg_mode (BooleanVar)
    memory,       \* CalcApp.memory
    ans,          \* CalcApp.ans
    undo_stack,   \* CalcApp.undo_stack
    redo_stack,   \* CalcApp.redo_stack
    hist,         \* CalcApp.hist (Listbox lines, newest first)
    ans_lbl,      \* CalcApp.ans_lbl text after "Ans = "
    dialog,       \* the message of the last messagebox.showerror, or NoDialog
    pc,           \* position inside one _evaluate_silent call
    input,        \* the string SafeEvaluator.eval was called with
    expr,         \* the local variable expr of SafeEvaluator.eval
    ev,           \* the SafeEvaluator object (vars, deg_mode, funcs)
    node,         \* the local variable node of SafeEvaluator.eval
    val,          \* the local variable val of _evaluate_silent, or what eval raised
    result        \* what _evaluate_silent returned or raised

vars == <<entry, deg_mode, memory, ans, undo_stack, redo_stack, hist, ans_lbl,
          dialog, pc, input, expr, ev, node, val, result>>

guiVars == <<entry, deg_mode, memory, ans, undo_stack, redo_stack, hist,
             ans_lbl, dialog>>

evalVars == <<pc, input, expr, ev, node, val, result>>

(***************************************************************************)
(* Strings                                                                 *)
(***************************************************************************)
Digits == {"0", "1", "2", "3", "4", "5", "6", "7", "8", "9"}

IsDigit(c) == c \in Digits

DigitVal(c) ==
    CASE c = "0" -> 0 [] c = "1" -> 1 [] c = "2" -> 2 [] c = "3" -> 3
      [] c = "4" -> 4 [] c = "5" -> 5 [] c = "6" -> 6 [] c = "7" -> 7
      [] c = "8" -> 8 [] c = "9" -> 9

\* s[a:b] with 0-based a, b (0 <= a <= b <= len(s))
Slice(s, a, b) == SubSeq(s, a + 1, b)

RECURSIVE Join(_)
\* "".join(out) for a list of strings
Join(out) == IF out = <<>> THEN <<>> ELSE Head(out) \o Join(Tail(out))

RECURSIVE StrReplace(_, _, _)
\* str.replace(old, new) for a one-character old
StrReplace(s, old, new) ==
    IF s = <<>> THEN <<>>
    ELSE (IF Head(s) = old THEN new ELSE <<Head(s)>>)
         \o StrReplace(Tail(s), old, new)

\* list.insert(j, x): a negative j counts from the end and is clamped at 0,
\* a j beyond the end appends
ListInsert(lst, j, x) ==
    LET n == Len(lst)
        k0 == IF j < 0 THEN j + n ELSE j
        k == IF k0 < 0 THEN 0 ELSE IF k0 > n THEN n ELSE k0
    IN SubSeq(lst, 1, k) \o <<x>> \o SubSeq(lst, k + 1, n)

(***************************************************************************)
(* SafeEvaluator.eval, pre-processing                                      *)
(***************************************************************************)
\* expr.replace("×", "*").replace("÷", "/").replace("^", "**")
ReplaceGlyphs(s) ==
    StrReplace(StrReplace(StrReplace(s, "×", <<"*">>), "÷", <<"/">>),
               "^", <<"*", "*">>)

\* a replacement of a closing percent sign only
ReplacePercentLast(s) ==
    IF s # <<>> /\ s[Len(s)] = "%"
    THEN SubSeq(s, 1, Len(s) - 1) \o <<"/", "1", "0", "0">> ELSE s

\* expr.replace("%", "/100")
ReplacePercent(s) == StrReplace(s, "%", <<"/", "1", "0", "0">>)

FactOpen == <<"f", "a", "c", "t", "(">>

RECURSIVE MatchParen(_, _, _)
\* the backward scan over out for the matching "(": the index it stops at,
\* -1 when the scan runs off the front of the list
MatchParen(out, j, depth) ==
    IF j < 0 THEN j
    ELSE IF out[j + 1] = <<")">> THEN MatchParen(out, j - 1, depth + 1)
    ELSE IF out[j + 1] = <<"(">> THEN
        (IF depth - 1 = 0 THEN j ELSE MatchParen(out, j - 1, depth - 1))
    ELSE MatchParen(out, j - 1, depth)

RECURSIVE NumberEndDigits(_, _)
\* a scan that takes digits only and stops at a decimal point
NumberEndDigits(s, j) ==
    IF j < Len(s) /\ IsDigit(s[j + 1]) THEN NumberEndDigits(s, j + 1) ELSE j

RECURSIVE NumberEnd(_, _)
\* the index after the run of digits and "." that starts at j
NumberEnd(s, j) ==
    IF j < Len(s) /\ (IsDigit(s[j + 1]) \/ s[j + 1] = ".")
    THEN NumberEnd(s, j + 1) ELSE j

\* the run s[i:j] appended to out one character at a time
AppendChars(out, s, i, j) == out \o [k \in 1..(j - i) |-> <<s[i + k]>>]

RECURSIVE ReplaceFactorialLoop(_, _, _)
ReplaceFactorialLoop(s, i, out) ==
    IF ~(i < Len(s)) THEN out
    ELSE IF s[i + 1] = "!" THEN
        ReplaceFactorialLoop(s, i + 1, Append(out, <<"!">>))
    ELSE IF s[i + 1] = ")" /\ i + 1 < Len(s) /\ s[i + 2] = "!" THEN
        LET j == MatchParen(out, Len(out) - 1, 1)
        IN ReplaceFactorialLoop(s, i + 2,
               Append(ListInsert(out, j, FactOpen), <<")">>))
    ELSE IF IsDigit(s[i + 1]) THEN
        LET j == NumberEnd(s, i)
        IN IF j < Len(s) /\ s[j + 1] = "!"
           THEN ReplaceFactorialLoop(s, j + 1,
                    Append(out, FactOpen \o Slice(s, i, j) \o <<")">>))
           ELSE ReplaceFactorialLoop(s, j, AppendChars(out, s, i, j))
    ELSE ReplaceFactorialLoop(s, i + 1, Append(out, <<s[i + 1]>>))

\* _replace_factorial(s)
ReplaceFactorial(s) == Join(ReplaceFactorialLoop(s, 0, <<>>))

(***************************************************************************)
(* Numbers.  A Python number is a record                                   *)
(*   t : "int", "float", "bool" or "complex"                               *)
(*   n, d : the real value n/d in lowest terms (d > 0), times pi when      *)
(*          u = "pi"                                                       *)
(*   a : TRUE when the stored double is only the rounding of that real     *)
(*       (the real is not a binary fraction, or came from such a value)    *)
(* A complex number keeps only its type.  An operation whose result the    *)
(* records cannot hold (beyond MaxNum, irrational, or depending on the     *)
(* rounding error of an inexact double) yields the outcome Beyond, and the *)
(* transitions are guarded against it.                                     *)
(***************************************************************************)
MaxNum == 20000

NoValue == [t |-> "none", n |-> 0, d |-> 1, u |-> "1", a |-> FALSE]

Val(v) == [k |-> "val", v |-> v, exc |-> "", msg |-> "", arg |-> <<>>]

Err(exc, msg) == [k |-> "err", v |-> NoValue, exc |-> exc, msg |-> msg, arg |-> <<>>]

ErrArg(exc, msg, arg) == [k |-> "err", v |-> NoValue, exc |-> exc, msg |-> msg, arg |-> arg]

Beyond == [k |-> "beyond", v |-> NoValue, exc |-> "", msg |-> "", arg |-> <<>>]

Abs(x) == IF x < 0 THEN -x ELSE x

RECURSIVE Gcd(_, _)
Gcd(x, y) == IF y = 0 THEN x ELSE Gcd(y, x % y)

RECURSIVE IsPow2(_)
IsPow2(d) == IF d = 1 THEN TRUE ELSE IF d % 2 # 0 THEN FALSE ELSE IsPow2(d \div 2)

\* the number n/d (d # 0) of type t, in lowest terms; Beyond when out of range
Num(t, n, d, u, a) ==
    LET g == Gcd(Abs(n), Abs(d))
        nn == (IF d < 0 THEN -n ELSE n) \div g
        dd == Abs(d) \div g
    IN IF Abs(nn) > MaxNum \/ dd > MaxNum THEN Beyond
       ELSE IF nn = 0 THEN Val([t |-> t, n |-> 0, d |-> 1, u |-> "1", a |-> a])
       ELSE Val([t |-> t, n |-> nn, d |-> dd, u |-> u,
                 a |-> a \/ u = "pi" \/ ~IsPow2(dd)])

PyInt(n) == [t |-> "int", n |-> n, d |-> 1, u |-> "1", a |-> FALSE]

PyBool(b) == [t |-> "bool", n |-> IF b THEN 1 ELSE 0, d |-> 1, u |-> "1", a |-> FALSE]

Complex == [t |-> "complex", n |-> 0, d |-> 1, u |-> "1", a |-> FALSE]

IsComplex(v) == v.t = "complex"

\* int and bool operands compute as int
IsInt(v) == v.t \in {"int", "bool"}

IsZero(v) == v.n = 0

\* the double may lie on either side of the real it stands for
Inexact(v) == v.a

Sign(v) == IF v.n < 0 THEN -1 ELSE IF v.n = 0 THEN 0 ELSE 1

ArithType(x, y) == IF IsInt(x) /\ IsInt(y) THEN "int" ELSE "float"

\* floor(n/d) for d > 0
FloorDiv(n, d) == IF n >= 0 THEN n \div d ELSE -((-n + d - 1) \div d)

(***************************************************************************)
(* The operator module functions of SafeEvaluator.bin_ops / unary_ops      *)
(***************************************************************************)
OpAdd(x, y) ==
    IF IsComplex(x) \/ IsComplex(y) THEN Val(Complex)
    ELSE IF x.u # y.u /\ ~IsZero(x) /\ ~IsZero(y) THEN Beyond
    ELSE Num(ArithType(x, y), x.n * y.d + y.n * x.d, x.d * y.d,
             IF IsZero(x) THEN y.u ELSE x.u, x.a \/ y.a)

OpNeg(x) == IF IsComplex(x) THEN Val(Complex)
            ELSE Val([x EXCEPT !.n = -x.n, !.t = IF IsInt(x) THEN "int" ELSE x.t])

OpPos(x) == IF IsComplex(x) THEN Val(Complex)
            ELSE Val([x EXCEPT !.t = IF IsInt(x) THEN "int" ELSE x.t])

OpSub(x, y) == IF IsComplex(y) THEN Val(Complex) ELSE OpAdd(x, OpNeg(y).v)

OpMul(x, y) ==
    IF IsComplex(x) \/ IsComplex(y) THEN Val(Complex)
    ELSE IF x.u = "pi" /\ y.u = "pi" THEN Beyond
    ELSE Num(ArithType(x, y), x.n * y.n, x.d * y.d,
             IF x.u = "pi" \/ y.u = "pi" THEN "pi" ELSE "1", x.a \/ y.a)

OpTrueDiv(x, y) ==
    IF IsComplex(y) THEN Beyond
    ELSE IF IsZero(y) THEN
        (IF Inexact(y) THEN Beyond ELSE Err("ZeroDivisionError", "division by zero"))
    ELSE IF IsComplex(x) THEN Val(Complex)
    ELSE IF y.u = "pi" /\ x.u # "pi" /\ ~IsZero(x) THEN Beyond
    ELSE Num("float", x.n * y.d, x.d * y.n,
             IF x.u = "pi" /\ y.u # "pi" THEN "pi" ELSE "1", x.a \/ y.a)

OpFloorDiv(x, y) ==
    IF IsComplex(x) \/ IsComplex(y) THEN Err("TypeError", "unsupported operand type(s)")
    ELSE IF IsZero(y) THEN
        (IF Inexact(y) THEN Beyond
         ELSE Err("ZeroDivisionError", "integer division or modulo by zero"))
    ELSE IF Inexact(x) \/ Inexact(y) THEN Beyond
    ELSE Num(ArithType(x, y),
             FloorDiv(x.n * y.d * Sign(y), x.d * y.n * Sign(y)), 1, "1", FALSE)

OpMod(x, y) ==
    IF IsComplex(x) \/ IsComplex(y) THEN Err("TypeError", "unsupported operand type(s)")
    ELSE IF IsZero(y) THEN
        (IF Inexact(y) THEN Beyond
         ELSE Err("ZeroDivisionError", "integer division or modulo by zero"))
    ELSE IF Inexact(x) \/ Inexact(y) THEN Beyond
    ELSE LET q == FloorDiv(x.n * y.d * Sign(y), x.d * y.n * Sign(y))
         \* x - q*y over the common denominator x.d * y.d
         IN Num(ArithType(x, y), x.n * y.d - q * y.n * x.d, x.d * y.d, "1", FALSE)

RECURSIVE IntPowLoop(_, _, _)
\* acc * b ** e for |b| >= 2; MaxNum + 1 stands for anything beyond MaxNum
IntPowLoop(b, e, acc) ==
    IF e = 0 THEN acc
    ELSE IF Abs(acc * b) > MaxNum THEN MaxNum + 1
    ELSE IntPowLoop(b, e - 1, acc * b)

\* b ** e for integers b and e >= 0
IntPow(b, e) ==
    IF e = 0 \/ b = 1 THEN 1
    ELSE IF b = 0 THEN 0
    ELSE IF b = -1 THEN (IF e % 2 = 0 THEN 1 ELSE -1)
    ELSE IntPowLoop(b, e, 1)

RECURSIVE IntSqrtLoop(_, _, _)
\* the least r in lo..hi with r * r >= x, by bisection
IntSqrtLoop(x, lo, hi) ==
    IF lo >= hi THEN lo
    ELSE LET mid == (lo + hi) \div 2
         IN IF mid * mid >= x THEN IntSqrtLoop(x, lo, mid)
            ELSE IntSqrtLoop(x, mid + 1, hi)

\* the least r >= 0 with r * r >= x (0 <= x <= MaxNum)
IntSqrt(x) == IntSqrtLoop(x, 0, MaxNum)

IsSquare(x) == x >= 0 /\ IntSqrt(x) * IntSqrt(x) = x

OpPow(x, y) ==
    IF IsComplex(x) \/ IsComplex(y) THEN Beyond
    ELSE IF x.u = "pi" \/ y.u = "pi" THEN Beyond
    ELSE IF y.d = 1 /\ ~Inexact(y) THEN
        \* an integral exponent
        IF Abs(y.n) > MaxNum THEN Beyond
        ELSE IF y.n >= 0 THEN
            LET pn == IntPow(x.n, y.n)
                pd == IntPow(x.d, y.n)
            IN IF Abs(pn) > MaxNum \/ pd > MaxNum THEN Beyond
               ELSE Num(ArithType(x, y), pn, pd, "1", x.a)
        ELSE IF IsZero(x) THEN
            (IF Inexact(x) THEN Beyond
             ELSE Err("ZeroDivisionError", "0.0 cannot be raised to a negative power"))
        ELSE LET pn == IntPow(x.d, -y.n)
                 pd == IntPow(x.n, -y.n)
             IN IF Abs(pn) > MaxNum \/ Abs(pd) > MaxNum THEN Beyond
                ELSE Num("float", pn, pd, "1", x.a)
    ELSE IF y.d = 1 THEN Beyond
    \* a fractional exponent
    ELSE IF IsZero(x) THEN
        (IF Inexact(x) THEN Beyond
         ELSE IF y.n > 0 THEN Num("float", 0, 1, "1", FALSE)
         ELSE Err("ZeroDivisionError", "0.0 cannot be raised to a negative power"))
    ELSE IF x.n < 0 THEN Val(Complex)
    ELSE IF y.n = 1 /\ y.d = 2 /\ IsSquare(x.n) /\ IsSquare(x.d)
        THEN Num("float", IntSqrt(x.n), IntSqrt(x.d), "1", x.a)
    ELSE Beyond

(***************************************************************************)
(* The math module functions of SafeEvaluator.funcs                        *)
(***************************************************************************)
TypeErr == Err("TypeError", "must be real number")

\* math.radians(x) = x * pi / 180
MathRadians(x) ==
    IF IsComplex(x) THEN TypeErr
    ELSE IF x.u = "pi" THEN Beyond
    ELSE Num("float", x.n, x.d * 180, "pi", TRUE)

\* math.degrees(x) = x * 180 / pi
MathDegrees(x) ==
    IF IsComplex(x) THEN TypeErr
    ELSE IF IsZero(x) THEN Num("float", 0, 1, "1", x.a)
    ELSE IF x.u # "pi" THEN Beyond
    ELSE Num("float", x.n * 180, x.d, "1", TRUE)

\* the angle x (radians) in degrees within 0..359, or -1 when x is not a
\* whole number of degrees
WholeDegrees(x) ==
    IF IsZero(x) THEN 0
    ELSE IF x.u # "pi" \/ 180 % x.d # 0 THEN -1
    ELSE (((x.n * (180 \div x.d)) % 360) + 360) % 360

\* sin at the angles whose sine is rational, as <<numerator, denominator>>
SinTable(g) ==
    CASE g \in {0, 180} -> <<0, 1>>
      [] g \in {30, 150} -> <<1, 2>>
      [] g = 90 -> <<1, 1>>
      [] g \in {210, 330} -> <<-1, 2>>
      [] g = 270 -> <<-1, 1>>
      [] OTHER -> <<0, 0>>

MathSin(x) ==
    IF IsComplex(x) THEN TypeErr
    ELSE LET g == WholeDegrees(x)
             r == IF g < 0 THEN <<0, 0>> ELSE SinTable(g)
         IN IF r[2] = 0 THEN Beyond ELSE Num("float", r[1], r[2], "1", ~IsZero(x))

MathCos(x) ==
    IF IsComplex(x) THEN TypeErr
    ELSE LET g == WholeDegrees(x)
             r == IF g < 0 THEN <<0, 0>> ELSE SinTable((g + 90) % 360)
         IN IF r[2] = 0 THEN Beyond ELSE Num("float", r[1], r[2], "1", ~IsZero(x))

MathTan(x) ==
    IF IsComplex(x) THEN TypeErr
    ELSE LET g == WholeDegrees(x)
         IN IF g \in {0, 180} THEN Num("float", 0, 1, "1", ~IsZero(x))
            ELSE IF g \in {45, 225} THEN Num("float", 1, 1, "1", TRUE)
            ELSE IF g \in {135, 315} THEN Num("float", -1, 1, "1", TRUE)
            ELSE Beyond

DomainErr == Err("ValueError", "math domain error")

\* |x| compared with 1: -1 below, 0 equal, 1 above
CmpOne(x) == IF Abs(x.n) < x.d THEN -1 ELSE IF Abs(x.n) = x.d THEN 0 ELSE 1

MathAsin(x) ==
    IF IsComplex(x) THEN TypeErr
    ELSE IF x.u = "pi" THEN Beyond
    ELSE IF CmpOne(x) = 1 THEN DomainErr
    ELSE IF Inexact(x) /\ CmpOne(x) = 0 THEN Beyond
    ELSE IF IsZero(x) THEN Num("float", 0, 1, "1", x.a)
    ELSE IF CmpOne(x) = 0 THEN Num("float", Sign(x), 2, "pi", TRUE)
    ELSE IF x.d = 2 THEN Num("float", Sign(x), 6, "pi", TRUE)
    ELSE Beyond

MathAcos(x) ==
    IF IsComplex(x) THEN TypeErr
    ELSE IF x.u = "pi" THEN Beyond
    ELSE IF CmpOne(x) = 1 THEN DomainErr
    ELSE IF Inexact(x) /\ CmpOne(x) = 0 THEN Beyond
    ELSE IF IsZero(x) THEN Num("float", 1, 2, "pi", TRUE)
    ELSE IF CmpOne(x) = 0 THEN
        (IF Inexact(x) THEN Beyond ELSE Num("float", (1 - Sign(x)) \div 2, 1, "pi", TRUE))
    ELSE IF x.d = 2 THEN Num("float", IF x.n > 0 THEN 1 ELSE 2, 3, "pi", TRUE)
    ELSE Beyond

MathAtan(x) ==
    IF IsComplex(x) THEN TypeErr
    ELSE IF x.u = "pi" THEN Beyond
    ELSE IF IsZero(x) THEN Num("float", 0, 1, "1", x.a)
    ELSE IF CmpOne(x) = 0 THEN Num("float", Sign(x), 4, "pi", TRUE)
    ELSE Beyond

RECURSIVE LogOf(_, _, _)
\* the k in 0..MaxNum with b ** k = x, or -1 (integers x >= 1, b >= 2)
LogOf(x, b, k) ==
    IF x = 1 THEN k ELSE IF x % b # 0 THEN -1 ELSE LogOf(x \div b, b, k + 1)

\* math.log(x, b) = log(x) / log(b)
MathLog2(x, b) ==
    IF IsComplex(x) \/ IsComplex(b) THEN TypeErr
    ELSE IF x.u = "pi" \/ b.u = "pi" THEN Beyond
    ELSE IF IsZero(x) \/ x.n < 0 THEN
        (IF IsZero(x) /\ Inexact(x) THEN Beyond ELSE DomainErr)
    ELSE IF IsZero(b) \/ b.n < 0 THEN
        (IF IsZero(b) /\ Inexact(b) THEN Beyond ELSE DomainErr)
    ELSE IF b.n = 1 /\ b.d = 1 THEN
        (IF Inexact(b) THEN Beyond
         ELSE Err("ZeroDivisionError", "float division by zero"))
    ELSE IF x.n = 1 /\ x.d = 1 THEN
        (IF Inexact(x) THEN Beyond ELSE Num("float", 0, 1, "1", FALSE))
    ELSE IF x.d = 1 /\ b.d = 1 /\ LogOf(x.n, b.n, 0) >= 0
        THEN Num("float", LogOf(x.n, b.n, 0), 1, "1", TRUE)
    ELSE Beyond

\* math.log(x)
MathLog1(x) ==
    IF IsComplex(x) THEN TypeErr
    ELSE IF x.u = "pi" THEN Beyond
    ELSE IF IsZero(x) \/ x.n < 0 THEN
        (IF IsZero(x) /\ Inexact(x) THEN Beyond ELSE DomainErr)
    ELSE IF x.n = 1 /\ x.d = 1 THEN
        (IF Inexact(x) THEN Beyond ELSE Num("float", 0, 1, "1", FALSE))
    ELSE Beyond

MathSqrt(x) ==
    IF IsComplex(x) THEN TypeErr
    ELSE IF x.u = "pi" THEN Beyond
    ELSE IF IsZero(x) THEN (IF Inexact(x) THEN Beyond ELSE Num("float", 0, 1, "1", FALSE))
    ELSE IF x.n < 0 THEN DomainErr
    ELSE IF IsSquare(x.n) /\ IsSquare(x.d)
        THEN Num("float", IntSqrt(x.n), IntSqrt(x.d), "1", x.a)
    ELSE Beyond

\* the builtin abs
BuiltinAbs(x) ==
    IF IsComplex(x) THEN Beyond
    ELSE Val([x EXCEPT !.n = Abs(x.n), !.t = IF IsInt(x) THEN "int" ELSE x.t])

MathFloor(x) ==
    IF IsComplex(x) THEN TypeErr
    ELSE IF Inexact(x) /\ (x.u = "pi" \/ x.d = 1) THEN Beyond
    ELSE Num("int", FloorDiv(x.n, x.d), 1, "1", FALSE)

MathCeil(x) ==
    IF IsComplex(x) THEN TypeErr
    ELSE IF Inexact(x) /\ (x.u = "pi" \/ x.d = 1) THEN Beyond
    ELSE Num("int", -FloorDiv(-x.n, x.d), 1, "1", FALSE)

RECURSIVE FactorialLoop(_, _, _)
\* acc * (k + 1) * ... * n; MaxNum + 1 stands for anything beyond MaxNum
FactorialLoop(n, k, acc) ==
    IF k = n THEN acc
    ELSE IF acc * (k + 1) > MaxNum THEN MaxNum + 1
    ELSE FactorialLoop(n, k + 1, acc * (k + 1))

\* n! for n >= 0
Factorial(n) == FactorialLoop(n, 0, 1)

MathFactorial(x) ==
    IF ~IsInt(x) THEN Err("TypeError", "object cannot be interpreted as an integer")
    ELSE IF x.n < 0 THEN Err("ValueError", "factorial() not defined for negative values")
    ELSE IF x.n > MaxNum THEN Beyond
    ELSE Num("int", Factorial(x.n), 1, "1", FALSE)

(***************************************************************************)
(* ast.parse(expr, mode="eval"): the tokenizer.  A token is                *)
(* <<"NUMBER", outcome>>, <<"NAME", chars>> or <<"OP", symbol>>.           *)
(* Of Python's lexicon the model covers decimal integer, float and         *)
(* imaginary literals, identifiers, the constants True, False, None and    *)
(* "...", and the operators listed in OpChars.                             *)
(***************************************************************************)
Letters == {"a", "b", "c", "d", "e", "f", "g", "h", "i", "j", "k", "l", "m",
            "n", "o", "p", "q", "r", "s", "t", "u", "v", "w", "x", "y", "z",
            "A", "B", "C", "D", "E", "F", "G", "H", "I", "J", "K", "L", "M",
            "N", "O", "P", "Q", "R", "S", "T", "U", "V", "W", "X", "Y", "Z",
            "_"}

OpChars == {"+", "-", "*", "/", "%", "(", ")", ",", "[", "]", "<", ">", "~",
            "@", "^", "."}

RECURSIVE DigitsEnd(_, _)
\* the index after the run of digits that starts at j
DigitsEnd(s, j) ==
    IF j < Len(s) /\ IsDigit(s[j + 1]) THEN DigitsEnd(s, j + 1) ELSE j

RECURSIVE NameEnd(_, _)
NameEnd(s, j) ==
    IF j < Len(s) /\ (s[j + 1] \in Letters \/ IsDigit(s[j + 1]))
    THEN NameEnd(s, j + 1) ELSE j

RECURSIVE DecVal(_, _)
\* the value of a digit string, MaxNum + 1 standing for anything larger
DecVal(digs, acc) ==
    IF digs = <<>> THEN acc
    ELSE IF acc > MaxNum THEN acc
    ELSE DecVal(Tail(digs), acc * 10 + DigitVal(Head(digs)))

RECURSIVE Pow10(_)
\* 10 ** k, MaxNum + 1 standing for anything larger
Pow10(k) ==
    IF k = 0 THEN 1
    ELSE LET r == Pow10(k - 1) IN IF r * 10 > MaxNum THEN MaxNum + 1 ELSE r * 10

RECURSIVE StripZeros(_)
\* a fraction's digits without its trailing zeros
StripZeros(digs) ==
    IF digs # <<>> /\ digs[Len(digs)] = "0"
    THEN StripZeros(SubSeq(digs, 1, Len(digs) - 1)) ELSE digs

\* the value of the literal with mantissa digits ip.fp and exponent e
FloatVal(ip, fp, e) ==
    LET fr == StripZeros(fp)
        m == DecVal(ip \o fr, 0)
        sh == e - Len(fr)
    IN IF m > MaxNum THEN Beyond
       ELSE IF m = 0 THEN Num("float", 0, 1, "1", FALSE)
       ELSE IF Abs(sh) > 9 THEN Beyond
       ELSE IF sh >= 0 THEN
           (IF Pow10(sh) > MaxNum THEN Beyond ELSE Num("float", m * Pow10(sh), 1, "1", FALSE))
       ELSE IF Pow10(-sh) > MaxNum THEN Beyond
       ELSE Num("float", m, Pow10(-sh), "1", FALSE)

IntVal(ip) ==
    LET m == DecVal(ip, 0) IN IF m > MaxNum THEN Beyond ELSE Val(PyInt(m))

\* one numeric literal starting at i: [ok, j (the index after it), val]
LexNumber(s, i) ==
    LET n == Len(s)
        j1 == DigitsEnd(s, i)
        ip == Slice(s, i, j1)
        hasPoint == j1 < n /\ s[j1 + 1] = "."
        j2 == IF hasPoint THEN DigitsEnd(s, j1 + 1) ELSE j1
        fp == IF hasPoint THEN Slice(s, j1 + 1, j2) ELSE <<>>
        hasE == j2 < n /\ s[j2 + 1] \in {"e", "E"}
        hasSign == hasE /\ j2 + 1 < n /\ s[j2 + 2] \in {"+", "-"}
        k == IF hasSign THEN j2 + 2 ELSE j2 + 1
        j3 == IF hasE THEN DigitsEnd(s, k) ELSE j2
        goodE == hasE /\ j3 > k
        ex == IF goodE THEN DecVal(Slice(s, k, j3), 0) ELSE 0
        e == IF hasSign /\ s[j2 + 2] = "-" THEN -ex ELSE ex
        j4 == IF goodE THEN j3 ELSE j2
        imag == j4 < n /\ s[j4 + 1] \in {"j", "J"}
        j5 == IF imag THEN j4 + 1 ELSE j4
        isFloat == hasPoint \/ goodE
        leadingZero == Len(ip) > 1 /\ ip[1] = "0" /\ DecVal(ip, 0) # 0
        bad == \/ (hasE /\ ~goodE)
               \/ (j5 < n /\ s[j5 + 1] \in Letters)
               \/ (leadingZero /\ ~isFloat /\ ~imag)
    IN [ok |-> ~bad, j |-> j5,
        val |-> IF imag THEN Val(Complex)
                ELSE IF isFloat THEN FloatVal(ip, fp, e)
                ELSE IntVal(ip)]

RECURSIVE Lex(_, _, _)
\* the tokens of s from index i on; <<<<"ERRORTOKEN">>>> when tokenizing fails
Lex(s, i, toks) ==
    LET n == Len(s)
        c == s[i + 1]
        c2 == IF i + 1 < n THEN s[i + 2] ELSE ""
        c3 == IF i + 2 < n THEN s[i + 3] ELSE ""
        error == <<<<"ERRORTOKEN">>>>
    IN IF ~(i < n) THEN toks
       ELSE IF c = " " THEN (IF i = 0 THEN error ELSE Lex(s, i + 1, toks))
       ELSE IF IsDigit(c) \/ (c = "." /\ IsDigit(c2)) THEN
           LET num == LexNumber(s, i)
           IN IF num.ok THEN Lex(s, num.j, Append(toks, <<"NUMBER", num.val>>))
              ELSE error
       ELSE IF c \in Letters THEN
           LET j == NameEnd(s, i)
           IN Lex(s, j, Append(toks, <<"NAME", Slice(s, i, j)>>))
       ELSE IF c = "." /\ c2 = "." /\ c3 = "." THEN
           Lex(s, i + 3, Append(toks, <<"OP", "...">>))
       ELSE IF c = "*" /\ c2 = "*" THEN Lex(s, i + 2, Append(toks, <<"OP", "**">>))
       ELSE IF c = "/" /\ c2 = "/" THEN Lex(s, i + 2, Append(toks, <<"OP", "//">>))
       ELSE IF c \in OpChars THEN Lex(s, i + 1, Append(toks, <<"OP", c>>))
       ELSE error

Tokenize(s) == Lex(s, 0, <<>>)

(***************************************************************************)
(* ast.parse(expr, mode="eval"): the grammar.  A node is a tuple headed by *)
(* its class name:                                                         *)
(*   <<"Constant", outcome>>            <<"Name", id>>                     *)
(*   <<"BinOp", op, left, right>>       <<"UnaryOp", op, operand>>         *)
(*   <<"Call", func, args, keywords>>   <<"Attribute", value, attr>>       *)
(*   <<"Tuple", elts>>  <<"List", elts>>  <<"Starred", value>>             *)
(*   <<"Compare", left, rest>>          <<"Subscript", value, slice>>      *)
(* Each Parse operator returns [ok, node, pos], pos being the index of the *)
(* first token it did not consume.                                         *)
(***************************************************************************)
NoParse == [ok |-> FALSE, node |-> <<>>, pos |-> 0]

Parsed(nd, pos) == [ok |-> TRUE, node |-> nd, pos |-> pos]

IsOp(toks, pos, sym) ==
    pos <= Len(toks) /\ toks[pos][1] = "OP" /\ toks[pos][2] = sym

IsOpIn(toks, pos, syms) ==
    pos <= Len(toks) /\ toks[pos][1] = "OP" /\ toks[pos][2] \in syms

NoneValue == [t |-> "NoneType", n |-> 0, d |-> 1, u |-> "1", a |-> FALSE]

EllipsisValue == [t |-> "ellipsis", n |-> 0, d |-> 1, u |-> "1", a |-> FALSE]

RECURSIVE Parse(_, _, _, _, _)

\* the grammar rules of the recursive-descent parser Parse, by name
ParseAtom(toks, pos) == Parse("atom", toks, pos, <<>>, FALSE)

ParseElts(toks, pos, acc, comma) == Parse("elts", toks, pos, acc, comma)

ParseArgs(toks, pos, args, kws) == Parse("args", toks, pos, args, kws)

ParsePrimary(toks, pos) == Parse("primary", toks, pos, <<>>, FALSE)

ParseTrailers(toks, pos, nd) == Parse("trailers", toks, pos, nd, FALSE)

ParsePower(toks, pos) == Parse("power", toks, pos, <<>>, FALSE)

ParseFactor(toks, pos) == Parse("factor", toks, pos, <<>>, FALSE)

ParseTerm(toks, pos) == Parse("term", toks, pos, <<>>, FALSE)

ParseTermRest(toks, pos, left) == Parse("termrest", toks, pos, left, FALSE)

ParseSum(toks, pos) == Parse("sum", toks, pos, <<>>, FALSE)

ParseSumRest(toks, pos, left) == Parse("sumrest", toks, pos, left, FALSE)

ParseXor(toks, pos) == Parse("xor", toks, pos, <<>>, FALSE)

ParseXorRest(toks, pos, left) == Parse("xorrest", toks, pos, left, FALSE)

ParseExpression(toks, pos) == Parse("expression", toks, pos, <<>>, FALSE)

ParseCompareRest(toks, pos, acc) == Parse("comparerest", toks, pos, acc, FALSE)

ParseTop(toks, pos, acc, comma) == Parse("top", toks, pos, acc, comma)

\* rule of the grammar applied to the tokens toks from index pos; x and y
\* are what the rule has collected so far
Parse(rule, toks, pos, x, y) ==
    \* atom: NAME | True | False | None | NUMBER | "..." | group | tuple | list
    CASE rule = "atom" ->
        (
            IF pos > Len(toks) THEN NoParse
            ELSE IF toks[pos][1] = "NUMBER" THEN Parsed(<<"Constant", toks[pos][2]>>, pos + 1)
            ELSE IF toks[pos][1] = "NAME" THEN
                LET id == toks[pos][2]
                IN IF id = <<"T", "r", "u", "e">> THEN Parsed(<<"Constant", Val(PyBool(TRUE))>>, pos + 1)
                   ELSE IF id = <<"F", "a", "l", "s", "e">>
                       THEN Parsed(<<"Constant", Val(PyBool(FALSE))>>, pos + 1)
                   ELSE IF id = <<"N", "o", "n", "e">>
                       THEN Parsed(<<"Constant", Val(NoneValue)>>, pos + 1)
                   ELSE Parsed(<<"Name", id>>, pos + 1)
            ELSE IF IsOp(toks, pos, "...") THEN Parsed(<<"Constant", Val(EllipsisValue)>>, pos + 1)
            ELSE IF IsOp(toks, pos, "(") THEN
                IF IsOp(toks, pos + 1, ")") THEN Parsed(<<"Tuple", <<>>>>, pos + 2)
                ELSE LET r == ParseElts(toks, pos + 1, <<>>, FALSE)
                     IN IF ~r.ok \/ ~IsOp(toks, r.pos, ")") THEN NoParse
                        ELSE IF r.node[1] = "group" THEN
                            \* a parenthesized expression; a lone starred one is an error
                            (IF r.node[2][1][1] = "Starred" THEN NoParse
                             ELSE Parsed(r.node[2][1], r.pos + 1))
                        ELSE Parsed(<<"Tuple", r.node[2]>>, r.pos + 1)
            ELSE IF IsOp(toks, pos, "[") THEN
                IF IsOp(toks, pos + 1, "]") THEN Parsed(<<"List", <<>>>>, pos + 2)
                ELSE LET r == ParseElts(toks, pos + 1, <<>>, FALSE)
                     IN IF ~r.ok \/ ~IsOp(toks, r.pos, "]") THEN NoParse
                        ELSE Parsed(<<"List", r.node[2]>>, r.pos + 1)
            ELSE NoParse
        )
    \* star_named_expression ("," star_named_expression)* [","]: the node is
    \* <<"group", <<e>>>> for one element without a comma, <<"elts", es>> otherwise
      [] rule = "elts" ->
        LET acc == x
            comma == y
        IN (
            LET star == IsOp(toks, pos, "*")
                r == IF star THEN ParseXor(toks, pos + 1) ELSE ParseExpression(toks, pos)
                e == IF star THEN <<"Starred", r.node>> ELSE r.node
            IN IF ~r.ok THEN
                   (IF comma /\ acc # <<>> /\ ~star THEN Parsed(<<"elts", acc>>, pos) ELSE NoParse)
               ELSE IF IsOp(toks, r.pos, ",") THEN ParseElts(toks, r.pos + 1, Append(acc, e), TRUE)
               ELSE IF comma THEN Parsed(<<"elts", Append(acc, e)>>, r.pos)
               ELSE Parsed(<<"group", <<e>>>>, r.pos)
           )
    \* args of a call up to the ")": positional and starred arguments, then
    \* "**" arguments; the node is <<args, keywords>>
      [] rule = "args" ->
        LET args == x
            kws == y
        IN (
            IF IsOp(toks, pos, ")") THEN Parsed(<<args, kws>>, pos + 1)
            ELSE LET dstar == IsOp(toks, pos, "**")
                     star == IsOp(toks, pos, "*")
                     r == IF dstar \/ star THEN ParseExpression(toks, pos + 1)
                          ELSE ParseExpression(toks, pos)
                     args2 == IF dstar THEN args
                              ELSE IF star THEN Append(args, <<"Starred", r.node>>)
                              ELSE Append(args, r.node)
                     kws2 == IF dstar THEN Append(kws, r.node) ELSE kws
                 IN IF ~r.ok THEN NoParse
                    \* nothing but "**" arguments may follow a "**" argument
                    ELSE IF ~dstar /\ kws # <<>> THEN NoParse
                    ELSE IF IsOp(toks, r.pos, ")") THEN Parsed(<<args2, kws2>>, r.pos + 1)
                    ELSE IF IsOp(toks, r.pos, ",") THEN ParseArgs(toks, r.pos + 1, args2, kws2)
                    ELSE NoParse
           )
    \* primary: atom followed by calls, subscripts and attribute references
      [] rule = "primary" ->
        (
            LET r == ParseAtom(toks, pos)
            IN IF ~r.ok THEN NoParse ELSE ParseTrailers(toks, r.pos, r.node)
        )
      [] rule = "trailers" ->
        LET nd == x
        IN (
            IF IsOp(toks, pos, "(") THEN
                LET r == ParseArgs(toks, pos + 1, <<>>, <<>>)
                IN IF ~r.ok THEN NoParse
                   ELSE ParseTrailers(toks, r.pos, <<"Call", nd, r.node[1], r.node[2]>>)
            ELSE IF IsOp(toks, pos, "[") THEN
                LET r == ParseElts(toks, pos + 1, <<>>, FALSE)
                IN IF ~r.ok \/ ~IsOp(toks, r.pos, "]") THEN NoParse
                   ELSE ParseTrailers(toks, r.pos + 1, <<"Subscript", nd, r.node[2]>>)
            ELSE IF IsOp(toks, pos, ".") THEN
                IF pos + 1 <= Len(toks) /\ toks[pos + 1][1] = "NAME"
                THEN ParseTrailers(toks, pos + 2, <<"Attribute", nd, toks[pos + 1][2]>>)
                ELSE NoParse
            ELSE Parsed(nd, pos)
           )
    \* power: primary ["**" factor]
      [] rule = "power" ->
        (
            LET l == ParsePrimary(toks, pos)
            IN IF ~l.ok THEN NoParse
               ELSE IF IsOp(toks, l.pos, "**") THEN
                   LET r == ParseFactor(toks, l.pos + 1)
                   IN IF ~r.ok THEN NoParse
                      ELSE Parsed(<<"BinOp", "**", l.node, r.node>>, r.pos)
               ELSE l
        )
    \* factor: ("+" | "-" | "~") factor | power
      [] rule = "factor" ->
        (
            IF IsOpIn(toks, pos, {"+", "-", "~"}) THEN
                LET r == ParseFactor(toks, pos + 1)
                IN IF ~r.ok THEN NoParse
                   ELSE Parsed(<<"UnaryOp", toks[pos][2], r.node>>, r.pos)
            ELSE ParsePower(toks, pos)
        )
    \* term: factor (("*" | "/" | "//" | "%" | "@") factor)*
      [] rule = "term" ->
        (
            LET l == ParseFactor(toks, pos)
            IN IF ~l.ok THEN NoParse ELSE ParseTermRest(toks, l.pos, l.node)
        )
      [] rule = "termrest" ->
        LET left == x
        IN (
            IF IsOpIn(toks, pos, {"*", "/", "//", "%", "@"}) THEN
                LET r == ParseFactor(toks, pos + 1)
                IN IF ~r.ok THEN NoParse
                   ELSE ParseTermRest(toks, r.pos, <<"BinOp", toks[pos][2], left, r.node>>)
            ELSE Parsed(left, pos)
           )
    \* sum: term (("+" | "-") term)*
      [] rule = "sum" ->
        (
            LET l == ParseTerm(toks, pos)
            IN IF ~l.ok THEN NoParse ELSE ParseSumRest(toks, l.pos, l.node)
        )
      [] rule = "sumrest" ->
        LET left == x
        IN (
            IF IsOpIn(toks, pos, {"+", "-"}) THEN
                LET r == ParseTerm(toks, pos + 1)
                IN IF ~r.ok THEN NoParse
                   ELSE ParseSumRest(toks, r.pos, <<"BinOp", toks[pos][2], left, r.node>>)
            ELSE Parsed(left, pos)
           )
    \* bitwise_xor: sum ("^" sum)*
      [] rule = "xor" ->
        (
            LET l == ParseSum(toks, pos)
            IN IF ~l.ok THEN NoParse ELSE ParseXorRest(toks, l.pos, l.node)
        )
      [] rule = "xorrest" ->
        LET left == x
        IN (
            IF IsOp(toks, pos, "^") THEN
                LET r == ParseSum(toks, pos + 1)
                IN IF ~r.ok THEN NoParse
                   ELSE ParseXorRest(toks, r.pos, <<"BinOp", "^", left, r.node>>)
            ELSE Parsed(left, pos)
           )
    \* comparison: bitwise_xor (("<" | ">") bitwise_xor)*
      [] rule = "expression" ->
        (
            LET l == ParseXor(toks, pos)
            IN IF ~l.ok THEN NoParse
               ELSE IF IsOpIn(toks, l.pos, {"<", ">"}) THEN ParseCompareRest(toks, l.pos, <<l.node>>)
               ELSE l
        )
      [] rule = "comparerest" ->
        LET acc == x
        IN (
            IF IsOpIn(toks, pos, {"<", ">"}) THEN
                LET r == ParseXor(toks, pos + 1)
                IN IF ~r.ok THEN NoParse ELSE ParseCompareRest(toks, r.pos, Append(acc, r.node))
            ELSE Parsed(<<"Compare", Head(acc), Tail(acc)>>, pos)
           )
    \* expressions: expression ("," expression)* [","]
      [] rule = "top" ->
        LET acc == x
            comma == y
        IN (
            LET r == ParseExpression(toks, pos)
            IN IF ~r.ok THEN
                   (IF comma /\ pos > Len(toks) THEN Parsed(<<"Tuple", acc>>, pos) ELSE NoParse)
               ELSE IF IsOp(toks, r.pos, ",") THEN ParseTop(toks, r.pos + 1, Append(acc, r.node), TRUE)
               ELSE IF comma THEN Parsed(<<"Tuple", Append(acc, r.node)>>, r.pos)
               ELSE r
           )

\* the tree of the token list toks, when the parser accepts all of it
ParseTokens(toks) ==
    IF toks # <<>> /\ toks[Len(toks)][1] = "ERRORTOKEN" THEN NoParse
    ELSE LET r == ParseTop(toks, 1, <<>>, FALSE)
         IN IF r.ok /\ r.pos = Len(toks) + 1
            THEN Parsed(<<"Expression", r.node>>, r.pos) ELSE NoParse

\* ast.parse(expr, mode="eval"): [ok, node]; ~ok stands for SyntaxError
AstParse(s) == ParseTokens(Tokenize(s))

(***************************************************************************)
(* SafeEvaluator.__init__                                                  *)
(***************************************************************************)
N_sin == <<"s", "i", "n">>
N_cos == <<"c", "o", "s">>
N_tan == <<"t", "a", "n">>
N_asin == <<"a", "s", "i", "n">>
N_acos == <<"a", "c", "o", "s">>
N_atan == <<"a", "t", "a", "n">>
N_log == <<"l", "o", "g">>
N_ln == <<"l", "n">>
N_sqrt == <<"s", "q", "r", "t">>
N_abs == <<"a", "b", "s">>
N_floor == <<"f", "l", "o", "o", "r">>
N_ceil == <<"c", "e", "i", "l">>
N_fact == <<"f", "a", "c", "t">>
N_pow == <<"p", "o", "w">>
N_pi == <<"p", "i">>
N_e == <<"e">>
N_Ans == <<"A", "n", "s">>

\* self.bin_ops: the AST operator classes, named by their symbol
bin_ops == [sym \in {"+", "-", "*", "/", "//", "%", "**"} |->
              CASE sym = "+" -> "add" [] sym = "-" -> "sub" [] sym = "*" -> "mul"
                [] sym = "/" -> "truediv" [] sym = "//" -> "floordiv"
                [] sym = "%" -> "mod" [] sym = "**" -> "pow"]

\* self.unary_ops
unary_ops == [sym \in {"+", "-"} |-> IF sym = "+" THEN "pos" ELSE "neg"]

\* a wrapper chosen once, for degrees, whatever the flag
WrapTrigDegrees(f, deg) == [f |-> f, wrap |-> "radians"]

\* _wrap_trig(f): (lambda x: f(math.radians(x))) if self.deg_mode else f
WrapTrig(f, deg) == [f |-> f, wrap |-> IF deg THEN "radians" ELSE "none"]

\* _wrap_atrig(f): (lambda x: math.degrees(f(x))) if self.deg_mode else f
WrapAtrig(f, deg) == [f |-> f, wrap |-> IF deg THEN "degrees" ELSE "none"]

Plain(f) == [f |-> f, wrap |-> "none"]

FuncNames == {N_sin, N_cos, N_tan, N_asin, N_acos, N_atan, N_log, N_ln,
              N_sqrt, N_abs, N_floor, N_ceil, N_fact, N_pow}

\* self.funcs as built by a constructor call with deg_mode = deg
Funcs(deg) ==
    [name \in FuncNames |->
        CASE name = N_sin -> WrapTrig("math.sin", deg)
          [] name = N_cos -> WrapTrig("math.cos", deg)
          [] name = N_tan -> WrapTrig("math.tan", deg)
          [] name = N_asin -> WrapAtrig("math.asin", deg)
          [] name = N_acos -> WrapAtrig("math.acos", deg)
          [] name = N_atan -> WrapAtrig("math.atan", deg)
          [] name = N_log -> Plain("log10")
          [] name = N_ln -> Plain("math.log")
          [] name = N_sqrt -> Plain("math.sqrt")
          [] name = N_abs -> Plain("abs")
          [] name = N_floor -> Plain("math.floor")
          [] name = N_ceil -> Plain("math.ceil")
          [] name = N_fact -> Plain("math.factorial")
          [] name = N_pow -> Plain("pow")]

\* self.consts = {"pi": math.pi, "e": math.e}; math.e is not representable
consts == [name \in {N_pi, N_e} |->
             IF name = N_pi THEN Num("float", 1, 1, "pi", TRUE) ELSE Beyond]

\* SafeEvaluator(variables, deg_mode)
SafeEvaluator(variables, deg) ==
    [vars |-> variables, deg_mode |-> deg, funcs |-> Funcs(deg)]

NoEvaluator == [vars |-> <<>>, deg_mode |-> FALSE, funcs |-> <<>>]

(***************************************************************************)
(* SafeEvaluator.visit                                                     *)
(***************************************************************************)
ArityErr == Err("TypeError", "wrong number of arguments")

\* the call f(*args) of an unwrapped table entry
CallBase(f, args) ==
    LET n == Len(args)
    IN CASE f = "math.sin" -> IF n # 1 THEN ArityErr ELSE MathSin(args[1])
         [] f = "math.cos" -> IF n # 1 THEN ArityErr ELSE MathCos(args[1])
         [] f = "math.tan" -> IF n # 1 THEN ArityErr ELSE MathTan(args[1])
         [] f = "math.asin" -> IF n # 1 THEN ArityErr ELSE MathAsin(args[1])
         [] f = "math.acos" -> IF n # 1 THEN ArityErr ELSE MathAcos(args[1])
         [] f = "math.atan" -> IF n # 1 THEN ArityErr ELSE MathAtan(args[1])
         \* lambda x, b=10: math.log(x, b)
         [] f = "log10" -> IF n = 1 THEN MathLog2(args[1], PyInt(10))
                           ELSE IF n = 2 THEN MathLog2(args[1], args[2])
                           ELSE ArityErr
         [] f = "math.log" -> IF n = 1 THEN MathLog1(args[1])
                              ELSE IF n = 2 THEN MathLog2(args[1], args[2])
                              ELSE ArityErr
         [] f = "math.sqrt" -> IF n # 1 THEN ArityErr ELSE MathSqrt(args[1])
         [] f = "abs" -> IF n # 1 THEN ArityErr ELSE BuiltinAbs(args[1])
         [] f = "math.floor" -> IF n # 1 THEN ArityErr ELSE MathFloor(args[1])
         [] f = "math.ceil" -> IF n # 1 THEN ArityErr ELSE MathCeil(args[1])
         [] f = "math.factorial" -> IF n # 1 THEN ArityErr ELSE MathFactorial(args[1])
         \* the three-argument pow is not represented
         [] f = "pow" -> IF n = 2 THEN OpPow(args[1], args[2])
                         ELSE IF n = 3 THEN Beyond ELSE ArityErr

\* fn(*args) for an entry fn of self.funcs
CallFunc(fn, args) ==
    IF fn.wrap = "radians" THEN
        IF Len(args) # 1 THEN ArityErr
        ELSE LET r == MathRadians(args[1])
             IN IF r.k # "val" THEN r ELSE CallBase(fn.f, <<r.v>>)
    ELSE IF fn.wrap = "degrees" THEN
        IF Len(args) # 1 THEN ArityErr
        ELSE LET r == CallBase(fn.f, args)
             IN IF r.k # "val" THEN r ELSE MathDegrees(r.v)
    ELSE CallBase(fn.f, args)

\* self.bin_ops[op_type](left, right)
ApplyBinOp(f, x, y) ==
    CASE f = "add" -> OpAdd(x, y)
      [] f = "sub" -> OpSub(x, y)
      [] f = "mul" -> OpMul(x, y)
      [] f = "truediv" -> OpTrueDiv(x, y)
      [] f = "floordiv" -> OpFloorDiv(x, y)
      [] f = "mod" -> OpMod(x, y)
      [] f = "pow" -> OpPow(x, y)

\* self.unary_ops[op_type](operand)
ApplyUnaryOp(f, x) == IF f = "pos" THEN OpPos(x) ELSE OpNeg(x)

\* the first outcome of rs that is not a value, or Val(NoValue) when all are
FirstFailure(rs) ==
    IF \E i \in 1..Len(rs) : rs[i].k # "val"
    THEN rs[CHOOSE i \in 1..Len(rs) :
                /\ rs[i].k # "val"
                /\ \A j \in 1..(i - 1) : rs[j].k = "val"]
    ELSE Val(NoValue)

\* what the final else branch of visit does; evaluating the condition of the
\* elif before it, isinstance(node, ast.Paren), raises, for ast has no Paren
VisitOther(nd) == Err("AttributeError", "module 'ast' has no attribute 'Paren'")

RECURSIVE Visit(_, _)
Visit(nd, e) ==
    IF nd[1] = "Expression" THEN Visit(nd[2], e)
    ELSE IF nd[1] = "Constant" THEN
        LET c == nd[2]
        IN \* isinstance(node, ast.Num): int, float or complex, but not bool
           IF c.k # "val" THEN c
           ELSE IF c.v.t \in {"int", "float", "complex"} THEN c
           \* isinstance(node.value, (int, float)): bool is a subclass of int
           ELSE IF c.v.t = "bool" THEN c
           ELSE Err("ValueError", "Only numeric constants allowed.")
    ELSE IF nd[1] = "BinOp" THEN
        IF nd[2] \notin DOMAIN bin_ops THEN Err("ValueError", "Unsupported operator.")
        ELSE LET left == Visit(nd[3], e)
             IN IF left.k # "val" THEN left
                ELSE LET right == Visit(nd[4], e)
                     IN IF right.k # "val" THEN right
                        ELSE ApplyBinOp(bin_ops[nd[2]], left.v, right.v)
    ELSE IF nd[1] = "UnaryOp" THEN
        IF nd[2] \notin DOMAIN unary_ops
        THEN Err("ValueError", "Unsupported unary operator.")
        ELSE LET operand == Visit(nd[3], e)
             IN IF operand.k # "val" THEN operand
                ELSE ApplyUnaryOp(unary_ops[nd[2]], operand.v)
    ELSE IF nd[1] = "Call" THEN
        IF nd[2][1] # "Name" THEN Err("ValueError", "Only simple function calls allowed.")
        ELSE IF nd[2][2] \notin DOMAIN e.funcs
            THEN ErrArg("ValueError", "Unknown function: ", nd[2][2])
        ELSE LET args == [i \in 1..Len(nd[3]) |-> Visit(nd[3][i], e)]
                 kwargs == [i \in 1..Len(nd[4]) |-> Visit(nd[4][i], e)]
                 failed == FirstFailure(args \o kwargs)
             IN IF failed.k # "val" THEN failed
                \* a "**" argument gives kwargs the key None
                ELSE IF kwargs # <<>> THEN Err("TypeError", "keywords must be strings")
                ELSE CallFunc(e.funcs[nd[2][2]], [i \in 1..Len(args) |-> args[i].v])
    ELSE IF nd[1] = "Name" THEN
        IF nd[2] \in DOMAIN consts THEN consts[nd[2]]
        ELSE IF nd[2] \in DOMAIN e.vars THEN Val(e.vars[nd[2]])
        ELSE ErrArg("ValueError", "Unknown identifier: ", nd[2])
    ELSE VisitOther(nd)

\* the end of SafeEvaluator.eval: the except clause, or self.visit(node)
EvalParsed(p, e) ==
    IF ~p.ok THEN Err("ValueError", "Syntax error.") ELSE Visit(p.node, e)

\* SafeEvaluator.eval(expr)
Eval(s, e) ==
    EvalParsed(AstParse(ReplaceFactorial(ReplacePercent(ReplaceGlyphs(s)))), e)

(***************************************************************************)
(* CalcApp._evaluate_silent                                                *)
(***************************************************************************)
RECURSIVE LStrip(_)
LStrip(s) == IF s # <<>> /\ Head(s) = " " THEN LStrip(Tail(s)) ELSE s

RECURSIVE RStrip(_)
RStrip(s) ==
    IF s # <<>> /\ s[Len(s)] = " " THEN RStrip(SubSeq(s, 1, Len(s) - 1)) ELSE s

\* str.strip()
Strip(s) == RStrip(LStrip(s))

PyFloat(n, d) == [t |-> "float", n |-> n, d |-> d, u |-> "1", a |-> FALSE]

\* variables = {"Ans": self.ans}
Variables(a) == [name \in {N_Ans} |-> a]

\* float(val) without the complex check
CheckResultFloat(r) ==
    IF r.k # "val" THEN r ELSE Val([r.v EXCEPT !.t = "float"])

\* the lines after val = ev.eval(expr): the complex check and float(val)
CheckResult(r) ==
    IF r.k # "val" THEN r
    ELSE IF IsComplex(r.v) THEN Err("ValueError", "Complex results not supported.")
    ELSE Val([r.v EXCEPT !.t = "float"])

\* _evaluate_silent() on the entry text txt
EvaluateSilent(txt, a, deg) ==
    LET e == Strip(txt)
    IN IF e = <<>> THEN Val(PyFloat(0, 1))
       ELSE CheckResult(Eval(e, SafeEvaluator(Variables(a), deg)))

(***************************************************************************)
(* CalcApp._fmt and str(float): decimal rendering of a real n/d            *)
(***************************************************************************)
DigitChar(i) ==
    CASE i = 0 -> "0" [] i = 1 -> "1" [] i = 2 -> "2" [] i = 3 -> "3"
      [] i = 4 -> "4" [] i = 5 -> "5" [] i = 6 -> "6" [] i = 7 -> "7"
      [] i = 8 -> "8" [] i = 9 -> "9"

RECURSIVE Exp10Up(_, _, _)
\* the largest k >= 0 with d * 10^k <= m (m >= d)
Exp10Up(m, d, k) == IF d * 10 <= m THEN Exp10Up(m, d * 10, k + 1) ELSE k

RECURSIVE Exp10Down(_, _, _)
\* the least j >= 1 with m * 10^j >= d (m < d)
Exp10Down(m, d, j) == IF m * 10 >= d THEN j ELSE Exp10Down(m * 10, d, j + 1)

\* floor(log10(m / d)) for m, d > 0
Exp10(m, d) == IF m >= d THEN Exp10Up(m, d, 0) ELSE -Exp10Down(m, d, 1)

RECURSIVE DigitLoop(_, _, _, _)
\* k more digits of the expansion with remainder r: <<digits, remainder>>
DigitLoop(r, den, k, acc) ==
    IF k = 0 THEN <<acc, r>>
    ELSE DigitLoop((r * 10) % den, den, k - 1, Append(acc, (r * 10) \div den))

RECURSIVE IncDigits(_)
\* the digit string plus one in its last place; <<>> when every digit is 9
IncDigits(digs) ==
    IF digs = <<>> THEN <<>>
    ELSE LET n == Len(digs)
         IN IF digs[n] < 9 THEN [digs EXCEPT ![n] = digs[n] + 1]
            ELSE LET up == IncDigits(SubSeq(digs, 1, n - 1))
                 IN IF up = <<>> THEN <<>> ELSE Append(up, 0)

RECURSIVE StripZeroDigits(_)
StripZeroDigits(digs) ==
    IF Len(digs) > 1 /\ digs[Len(digs)] = 0
    THEN StripZeroDigits(SubSeq(digs, 1, Len(digs) - 1)) ELSE digs

RECURSIVE TenTo(_)
\* 10 ** k
TenTo(k) == IF k = 0 THEN 1 ELSE 10 * TenTo(k - 1)

\* m/d > 0 rounded half-even to prec significant digits:
\* [digs (without trailing zeros), x (the decimal exponent of digs[1])]
Significant(m, d, prec) ==
    LET x0 == Exp10(m, d)
        num == IF x0 >= 0 THEN m ELSE m * TenTo(-x0)
        den == IF x0 >= 0 THEN d * TenTo(x0) ELSE d
        dr == DigitLoop(num % den, den, prec - 1, <<num \div den>>)
        digs == dr[1]
        r == dr[2]
        roundUp == 2 * r > den \/ (2 * r = den /\ digs[prec] % 2 = 1)
        up == IncDigits(digs)
    IN IF ~roundUp THEN [digs |-> StripZeroDigits(digs), x |-> x0]
       ELSE IF up = <<>> THEN [digs |-> <<1>>, x |-> x0 + 1]
       ELSE [digs |-> StripZeroDigits(up), x |-> x0]

Chars(digs) == [i \in 1..Len(digs) |-> DigitChar(digs[i])]

Zeros(k) == [i \in 1..k |-> "0"]

\* the text of the digits digs at exponent x: scientific notation outside
\* -4 <= x < sciFrom, else fixed; pointZero appends ".0" to a whole number
Render(neg, digs, x, sciFrom, pointZero) ==
    LET n == Len(digs)
        sign == IF neg THEN <<"-">> ELSE <<>>
        ax == Abs(x)
        body ==
            IF x < -4 \/ x >= sciFrom THEN
                <<DigitChar(digs[1])>>
                \o (IF n > 1 THEN <<".">> \o Chars(SubSeq(digs, 2, n)) ELSE <<>>)
                \o <<"e", IF x < 0 THEN "-" ELSE "+">>
                \o <<DigitChar((ax \div 10) % 10), DigitChar(ax % 10)>>
            ELSE IF x >= 0 THEN
                (IF n >= x + 1 THEN Chars(SubSeq(digs, 1, x + 1))
                 ELSE Chars(digs) \o Zeros(x + 1 - n))
                \o (IF n > x + 1 THEN <<".">> \o Chars(SubSeq(digs, x + 2, n))
                    ELSE IF pointZero THEN <<".", "0">> ELSE <<>>)
            ELSE <<"0", ".">> \o Zeros(-x - 1) \o Chars(digs)
    IN sign \o body

\* the decimal text of v is determined by the record
FmtOk(v) == v.u = "1"

\* _fmt(x): x = 0.0 below 1e-9 in magnitude, then f"{x:.12g}"
Fmt(v) ==
    LET m == Abs(v.n)
    IN IF m <= (v.d - 1) \div 1000000000 THEN <<"0">>
       ELSE LET sg == Significant(m, v.d, 12)
            IN Render(v.n < 0, sg.digs, sg.x, 12, FALSE)

\* str(x) has one known text: x is exactly n/d
StrOk(v) == v.u = "1" /\ ~v.a

\* str(x) for a float x
StrFloat(v) ==
    IF v.n = 0 THEN <<"0", ".", "0">>
    ELSE LET sg == Significant(Abs(v.n), v.d, 17)
         IN Render(v.n < 0, sg.digs, sg.x, 16, TRUE)

(***************************************************************************)
(* CalcApp: the handlers                                                   *)
(***************************************************************************)
MaxUndo == 1
MaxRedo == 1
MaxHist == 2
MaxEntry == 3
MaxMem == 1

\* if self.hist.size() > 200
HistLimit == 200

NoDialog == [title |-> "", msg |-> "", arg |-> <<>>]

\* messagebox.showerror is modal: no other event of the window is handled
\* while the box is open
NoOpenDialog == dialog = NoDialog

NoResult == [k |-> "none", v |-> NoValue, exc |-> "", msg |-> "", arg |-> <<>>]

\* messagebox.showerror(title, str(e))
ShowError(title, r) == [title |-> title, msg |-> r.msg, arg |-> r.arg]

\* the buttons the model presses, out of the grid of _build_ui; "Backspace"
\* stands for the label U+232B
Labels == {"C", "Backspace", "MC", "MR", "M+", "M-", "=", "+/-", "Ans", "1", "!"}

\* the characters _bind_keys binds to _insert_key that the model types
KeyChars == {"1"}

\* token_map.get(label, label)
TokenMap(l) ==
    CASE l = "mod" -> <<"%">>
      [] l = "Ans" -> N_Ans
      [] l = "pi" -> N_pi
      [] l = "e" -> N_e
      [] l = "sqrt" -> N_sqrt \o <<"(">>
      [] l = "sin" -> N_sin \o <<"(">>
      [] l = "cos" -> N_cos \o <<"(">>
      [] l = "tan" -> N_tan \o <<"(">>
      [] l = "asin" -> N_asin \o <<"(">>
      [] l = "acos" -> N_acos \o <<"(">>
      [] l = "atan" -> N_atan \o <<"(">>
      [] l = "ln" -> N_ln \o <<"(">>
      [] l = "log" -> N_log \o <<"(">>
      [] l = "abs" -> N_abs \o <<"(">>
      [] l = "floor" -> N_floor \o <<"(">>
      [] l = "ceil" -> N_ceil \o <<"(">>
      [] l = "!" -> <<"!">>
      [] l = "^" -> <<"^">>
      [] l = "//" -> <<"/", "/">>
      [] l = "+/-" -> <<"s", "i", "g", "n">>
      [] l = "Enter" -> <<"=">>
      [] OTHER -> <<l>>

\* _snapshot()
Snapshot == undo_stack' = Append(undo_stack, entry)

\* a handler runs _evaluate_silent as one step; its locals (the evaluator,
\* the rewritten string, the tree) are gone when the handler returns
NoEvaluation == UNCHANGED evalVars

\* the outcome r of self._evaluate_silent() lies within the model
Evaluated(r) == r.k # "beyond" /\ NoEvaluation

\* _append_history(expr, val) on the list h
AppendHistory(h, e, v) ==
    LET h2 == <<e \o <<" ", "=", " ">> \o Fmt(v)>> \o h
    IN IF Len(h2) > HistLimit THEN SubSeq(h2, 1, Len(h2) - 1) ELSE h2

\* _do_equals() once the evaluation has returned v, shown as text
DoEqualsValue(e, v, text) ==
    /\ Len(hist) < MaxHist
    /\ ans' = v
    /\ ans_lbl' = text
    /\ hist' = AppendHistory(hist, e, v)
    /\ entry' = text
    /\ UNCHANGED dialog

\* a handler that clears the entry when the evaluation fails
DoEqualsResultClear(e, r) ==
    /\ Evaluated(r)
    /\ IF r.k = "val" THEN
           /\ FmtOk(r.v)
           /\ DoEqualsValue(e, r.v, Fmt(r.v))
       ELSE /\ dialog' = ShowError("Error", r)
            /\ entry' = <<>>
            /\ UNCHANGED <<ans, ans_lbl, hist>>

\* _do_equals() after val = self._evaluate_silent() ended as r
DoEqualsResult(e, r) ==
    /\ Evaluated(r)
    /\ IF r.k = "val" THEN
           /\ FmtOk(r.v)
           /\ DoEqualsValue(e, r.v, Fmt(r.v))
       ELSE /\ dialog' = ShowError("Error", r)
            /\ UNCHANGED <<entry, ans, ans_lbl, hist>>

\* _do_equals()
DoEquals ==
    IF Strip(entry) = <<>> THEN
        /\ NoEvaluation
        /\ UNCHANGED <<entry, ans, ans_lbl, hist, dialog>>
    ELSE DoEqualsResult(Strip(entry), EvaluateSilent(entry, ans, deg_mode))

\* self.memory += val (M+) or self.memory -= val (M-), the new value being m
MemoryStore(r, m) ==
    /\ m.k # "beyond"
    /\ IF r.k = "val" THEN
           /\ m.v.d = 1 /\ Abs(m.v.n) <= MaxMem
           /\ memory' = m.v
           /\ UNCHANGED dialog
       ELSE /\ dialog' = ShowError("Memory Error", r)
            /\ UNCHANGED memory

\* the M+ and M- branches of _press after val = self._evaluate_silent() ended as r
MemoryAdd(l, r) ==
    /\ Evaluated(r)
    /\ MemoryStore(r, IF r.k # "val" THEN r
                      ELSE IF l = "M+" THEN OpAdd(memory, r.v)
                      ELSE OpSub(memory, r.v))
    /\ UNCHANGED <<entry, undo_stack, redo_stack>>

\* the M+ and M- branches of _press
PressMemoryAdd(l) == MemoryAdd(l, EvaluateSilent(entry, ans, deg_mode))

\* self._snapshot(); self.entry.insert("insert", text), the cursor being at
\* the end of the entry
Insert(text) ==
    /\ Len(undo_stack) < MaxUndo
    /\ Len(entry) + Len(text) <= MaxEntry
    /\ Snapshot
    /\ entry' = entry \o text
    /\ NoEvaluation
    /\ UNCHANGED <<redo_stack, memory, ans, ans_lbl, hist, dialog>>

\* _press(label)
Press(l) ==
    /\ NoOpenDialog
    /\ UNCHANGED deg_mode
    /\ IF l = "C" THEN
           /\ Len(undo_stack) < MaxUndo
           /\ Snapshot
           /\ entry' = <<>>
           /\ redo_stack' = <<>>
           /\ NoEvaluation
           /\ UNCHANGED <<memory, ans, ans_lbl, hist, dialog>>
       ELSE IF l = "Backspace" THEN
           /\ Len(undo_stack) < MaxUndo
           /\ Snapshot
           /\ entry' = IF entry # <<>> THEN SubSeq(entry, 1, Len(entry) - 1) ELSE entry
           /\ NoEvaluation
           /\ UNCHANGED <<redo_stack, memory, ans, ans_lbl, hist, dialog>>
       ELSE IF l = "MC" THEN
           /\ memory' = PyFloat(0, 1)
           /\ NoEvaluation
           /\ UNCHANGED <<entry, undo_stack, redo_stack, ans, ans_lbl, hist, dialog>>
       ELSE IF l = "MR" THEN
           /\ StrOk(memory)
           /\ Insert(StrFloat(memory))
       ELSE IF l \in {"M+", "M-"} THEN
           /\ PressMemoryAdd(l)
           /\ UNCHANGED <<ans, ans_lbl, hist>>
       ELSE IF l = "=" THEN
           /\ DoEquals
           /\ UNCHANGED <<undo_stack, redo_stack, memory>>
       ELSE IF l = "+/-" THEN
           /\ Len(undo_stack) < MaxUndo
           /\ Snapshot
           /\ LET s == Strip(entry)
              IN IF s = <<>> THEN entry' = entry \o <<"-">>
                 ELSE entry' = <<"-", "(">> \o s \o <<")">>
           /\ Len(entry') <= MaxEntry
           /\ NoEvaluation
           /\ UNCHANGED <<redo_stack, memory, ans, ans_lbl, hist, dialog>>
       ELSE Insert(TokenMap(l))

\* _insert_key(e) for the character c
InsertKey(c) ==
    /\ NoOpenDialog
    /\ Len(undo_stack) < MaxUndo
    /\ Len(entry) < MaxEntry
    /\ Snapshot
    /\ entry' = Append(entry, c)
    /\ NoEvaluation
    /\ UNCHANGED <<deg_mode, redo_stack, memory, ans, ans_lbl, hist, dialog>>

\* _on_any_key(e) for a printable character
OnAnyKey ==
    /\ NoOpenDialog
    /\ redo_stack' = <<>>
    /\ NoEvaluation
    /\ UNCHANGED <<entry, deg_mode, undo_stack, memory, ans, ans_lbl, hist, dialog>>

\* the Degrees checkbutton: the variable flips, then _on_mode_change()
OnModeChange ==
    /\ NoOpenDialog
    /\ deg_mode' = ~deg_mode
    /\ NoEvaluation
    /\ UNCHANGED <<entry, undo_stack, redo_stack, memory, ans, ans_lbl, hist, dialog>>

\* _undo()
Undo ==
    /\ NoOpenDialog
    /\ IF undo_stack # <<>> THEN
           /\ Len(redo_stack) < MaxRedo
           /\ redo_stack' = Append(redo_stack, entry)
           /\ entry' = undo_stack[Len(undo_stack)]
           /\ undo_stack' = SubSeq(undo_stack, 1, Len(undo_stack) - 1)
       ELSE UNCHANGED <<entry, undo_stack, redo_stack>>
    /\ NoEvaluation
    /\ UNCHANGED <<deg_mode, memory, ans, ans_lbl, hist, dialog>>

\* _redo()
Redo ==
    /\ NoOpenDialog
    /\ IF redo_stack # <<>> THEN
           /\ Len(undo_stack) < MaxUndo
           /\ undo_stack' = Append(undo_stack, entry)
           /\ entry' = redo_stack[Len(redo_stack)]
           /\ redo_stack' = SubSeq(redo_stack, 1, Len(redo_stack) - 1)
       ELSE UNCHANGED <<entry, undo_stack, redo_stack>>
    /\ NoEvaluation
    /\ UNCHANGED <<deg_mode, memory, ans, ans_lbl, hist, dialog>>

RECURSIVE Find(_, _, _)
\* str.find(sub) from index i: the first index of sub in s, or -1
Find(s, sub, i) ==
    IF i + Len(sub) > Len(s) THEN -1
    ELSE IF SubSeq(s, i + 1, i + Len(sub)) = sub THEN i
    ELSE Find(s, sub, i + 1)

\* _on_history_double(_) with line i of the list selected
OnHistoryDouble(i) ==
    /\ NoOpenDialog
    /\ LET text == hist[i]
           at == Find(text, <<" ", "=", " ">>, 0)
       IN IF at >= 0 THEN entry' = Strip(SubSeq(text, at + 4, Len(text)))
          ELSE UNCHANGED entry
    /\ NoEvaluation
    /\ UNCHANGED <<deg_mode, undo_stack, redo_stack, memory, ans, ans_lbl, hist, dialog>>

\* the user closes the error box; showerror returns to its handler, which ends
DismissDialog ==
    /\ ~NoOpenDialog
    /\ dialog' = NoDialog
    /\ NoEvaluation
    /\ UNCHANGED <<entry, deg_mode, memory, ans, undo_stack, redo_stack, hist, ans_lbl>>

\* CalcApp.__init__
Init ==
    /\ entry = <<>>
    /\ deg_mode = TRUE
    /\ memory = PyFloat(0, 1)
    /\ ans = PyFloat(0, 1)
    /\ undo_stack = <<>>
    /\ redo_stack = <<>>
    /\ hist = <<>>
    /\ ans_lbl = <<"0">>
    /\ dialog = NoDialog
    /\ pc = "idle"
    /\ input = <<>>
    /\ expr = <<>>
    /\ ev = NoEvaluator
    /\ node = <<>>
    /\ val = NoResult
    /\ result = NoResult

Next ==
    \/ \E l \in Labels : Press(l)
    \/ \E c \in KeyChars : InsertKey(c)
    \/ OnAnyKey
    \/ OnModeChange
    \/ Undo
    \/ Redo
    \/ \E i \in 1..Len(hist) : OnHistoryDouble(i)
    \/ DismissDialog

Spec == Init /\ [][Next]_vars

(***************************************************************************)
(* One call of _evaluate_silent, statement by statement                    *)
(***************************************************************************)

\* the longest entry text drawn from Alphabet
MaxLen == 3

\* characters of the entry texts: digits, the decimal point, parentheses, the
\* postfix "!", the percent sign, an operator and the glyphs eval replaces
Alphabet == {"2", "5", "(", ")", "!", ".", "%", "+", "^", "×"}

X_GroupFact == <<"(", "2", "+", "3", ")", "!">>
X_NestedFact == <<"(", "2", "+", "(", "1", "*", "3", ")", ")", "!">>
X_OneGroup == <<"(", "2", ")", "!">>
X_Fact5 == <<"5", "!">>
X_Fact0 == <<"0", "!">>
X_DotFact == <<".", "5", "!">>
X_DecFact == <<"2", ".", "5", "!">>
X_StrayParen == <<"1", "+", "2", ")", "!">>
X_Mod == <<"7", "%", "3">>
X_Percent == <<"2", "0", "0", " ", "+", " ", "1", "0", "%">>
X_Sqrt == <<"s", "q", "r", "t", "(", "-", "1", ")">>
X_Root == <<"(", "-", "1", ")", "^", "0", ".", "5">>
X_Sin30 == <<"s", "i", "n", "(", "3", "0", ")">>
X_SinPi6 == <<"s", "i", "n", "(", "p", "i", "/", "6", ")">>
X_Asin == <<"a", "s", "i", "n", "(", "0", ".", "5", ")">>
X_True == <<"T", "r", "u", "e">>
X_List == <<"[", "1", "]">>
X_Compare == <<"1", "<", "2">>
X_Tuple == <<"(", "1", ",", "2", ")">>
X_Ans == <<"A", "n", "s", "+", "1">>
X_Blank == <<" ">>

\* entry texts of the calculator's documented use
Examples == {X_GroupFact, X_NestedFact, X_OneGroup, X_Fact5, X_Fact0,
             X_DotFact, X_DecFact, X_StrayParen, X_Mod, X_Percent,
             X_Sqrt, X_Root, X_Sin30, X_SinPi6, X_Asin,
             X_True, X_List, X_Compare, X_Tuple, X_Ans,
             X_Blank}

\* the entry texts an evaluation starts from
Inputs == Examples \cup UNION {[1..n -> Alphabet] : n \in 0..MaxLen}

\* values of self.ans left by earlier evaluations
AnsValues == {PyFloat(0, 1), PyFloat(2, 1)}

\* no evaluation is under way: the window handles its next event
Idle == pc \in {"idle", "done"}

\* _evaluate_silent(): expr = self.entry.get().strip(); the empty text returns
\* 0.0, any other builds the evaluator from self.ans and self.deg_mode.get()
EvaluateSilentStart ==
    /\ Idle
    /\ input' = Strip(entry)
    /\ expr' = Strip(entry)
    /\ node' = <<>>
    /\ val' = NoResult
    /\ IF Strip(entry) = <<>> THEN
           /\ ev' = NoEvaluator
           /\ result' = Val(PyFloat(0, 1))
           /\ pc' = "done"
       ELSE /\ ev' = SafeEvaluator(Variables(ans), deg_mode)
            /\ result' = NoResult
            /\ pc' = "eval"
    /\ UNCHANGED guiVars

\* eval: the three glyph replacements
EvalGlyphs ==
    /\ pc = "eval"
    /\ expr' = ReplaceGlyphs(expr)
    /\ pc' = "glyphs"
    /\ UNCHANGED <<guiVars, input, ev, node, val, result>>

\* eval: expr = expr.replace("%", "/100")
EvalPercent ==
    /\ pc = "glyphs"
    /\ expr' = ReplacePercent(expr)
    /\ pc' = "percent"
    /\ UNCHANGED <<guiVars, input, ev, node, val, result>>

\* eval: expr = _replace_factorial(expr)
EvalFactorial ==
    /\ pc = "percent"
    /\ expr' = ReplaceFactorial(expr)
    /\ pc' = "factorial"
    /\ UNCHANGED <<guiVars, input, ev, node, val, result>>

\* eval: node = ast.parse(expr, mode="eval"); SyntaxError becomes ValueError
EvalParse ==
    /\ pc = "factorial"
    /\ LET p == AstParse(expr)
       IN IF p.ok THEN
              /\ node' = p.node
              /\ pc' = "parsed"
              /\ UNCHANGED val
          ELSE /\ val' = Err("ValueError", "Syntax error.")
               /\ pc' = "visited"
               /\ UNCHANGED node
    /\ UNCHANGED <<guiVars, input, expr, ev, result>>

\* eval: return self.visit(node)
EvalVisit ==
    /\ pc = "parsed"
    /\ Visit(node, ev).k # "beyond"
    /\ val' = Visit(node, ev)
    /\ pc' = "visited"
    /\ UNCHANGED <<guiVars, input, expr, ev, node, result>>

\* _evaluate_silent(): the complex check and return float(val); an exception
\* of eval passes through
EvaluateSilentReturn ==
    /\ pc = "visited"
    /\ result' = CheckResult(val)
    /\ pc' = "done"
    /\ UNCHANGED <<guiVars, input, expr, ev, node, val>>

\* the Degrees checkbutton between two evaluations
ModeChange == Idle /\ OnModeChange

\* a calculator holding some entry text and some Ans
InitEval ==
    /\ entry \in Inputs
    /\ deg_mode = TRUE
    /\ memory = PyFloat(0, 1)
    /\ ans \in AnsValues
    /\ undo_stack = <<>>
    /\ redo_stack = <<>>
    /\ hist = <<>>
    /\ ans_lbl = Fmt(ans)
    /\ dialog = NoDialog
    /\ pc = "idle"
    /\ input = <<>>
    /\ expr = <<>>
    /\ ev = NoEvaluator
    /\ node = <<>>
    /\ val = NoResult
    /\ result = NoResult

NextEval ==
    \/ EvaluateSilentStart
    \/ EvalGlyphs
    \/ EvalPercent
    \/ EvalFactorial
    \/ EvalParse
    \/ EvalVisit
    \/ EvaluateSilentReturn
    \/ ModeChange

SpecEval == InitEval /\ [][NextEval]_vars

(***************************************************************************)
(* The documented properties, stated over the two specifications           *)
(***************************************************************************)

\* the number of "(" and of ")" among the first n characters of s
Opens(s, n) == Cardinality({i \in 1..n : s[i] = "("})

Closes(s, n) == Cardinality({i \in 1..n : s[i] = ")"})

\* the parentheses of s pair up
Balanced(s) ==
    /\ Opens(s, Len(s)) = Closes(s, Len(s))
    /\ \A n \in 1..Len(s) : Closes(s, n) <= Opens(s, n)

\* how often the character c stands in s
Count(s, c) == Cardinality({i \in 1..Len(s) : s[i] = c})

\* s[i..j] is a parenthesized group: s[i] is the "(" matching the ")" at j
IsGroup(s, i, j) ==
    /\ i < j /\ s[i] = "(" /\ s[j] = ")"
    /\ Balanced(SubSeq(s, i, j))
    /\ \A k \in (i + 1)..j : ~Balanced(SubSeq(s, k, j))

\* s holds none of the characters the two textual substitutions replace
PlainText(s) == \A i \in 1..Len(s) : s[i] \notin {"%", "×", "÷", "^"}

\* fact(<s>)
Fact(s) == <<"f", "a", "c", "t", "(">> \o s \o <<")">>

\* the returned value is the real n/d
Returns(r, n, d) == r.k = "val" /\ r.v.u = "1" /\ r.v.n = n /\ r.v.d = d

SyntaxError == Err("ValueError", "Syntax error.")

ComplexError == Err("ValueError", "Complex results not supported.")

\* C1: a balanced parenthesized group immediately followed by "!" comes out
\* of _replace_factorial as fact( + the group + ), balanced input gives
\* balanced output, and (2+3)! evaluates to 120
C1_GroupFactorial ==
    /\ \A i \in 1..Len(input) : \A j \in 1..(Len(input) - 1) :
          ( /\ pc = "factorial"
            /\ PlainText(input)
            /\ Count(input, "!") = 1
            /\ IsGroup(input, i, j)
            /\ input[j + 1] = "!" )
          => expr = SubSeq(input, 1, i - 1) \o Fact(SubSeq(input, i, j))
                    \o SubSeq(input, j + 2, Len(input))
    /\ (pc = "factorial" /\ input = X_GroupFact) => expr = Fact(<<"(", "2", "+", "3", ")">>)
    /\ (pc = "factorial" /\ input = X_GroupFact) => Balanced(expr)
    /\ (pc = "done" /\ input = X_GroupFact) => Returns(result, 120, 1)

\* the start of the run of digits and "." that ends just before index i of s
RunStart(s, i) ==
    CHOOSE k \in 1..i :
        /\ \A m \in k..(i - 1) : IsDigit(s[m]) \/ s[m] = "."
        /\ \A k2 \in 1..(k - 1) :
              \E m \in k2..(i - 1) : ~(IsDigit(s[m]) \/ s[m] = ".")

\* the first digit of s[k..i-1], or 0 when it holds none
FirstDigit(s, k, i) ==
    IF \E m \in k..(i - 1) : IsDigit(s[m])
    THEN CHOOSE m \in k..(i - 1) :
             IsDigit(s[m]) /\ \A m2 \in k..(m - 1) : ~IsDigit(s[m2])
    ELSE 0

\* s with the run s[d..i-1] and the "!" at i rewritten to fact(<run>)
WithFact(s, d, i) ==
    SubSeq(s, 1, d - 1) \o Fact(SubSeq(s, d, i - 1)) \o SubSeq(s, i + 1, Len(s))

\* the inputs with one "!", at i, that does not follow a ")"
OneNumberBang(i) ==
    /\ pc = "factorial"
    /\ PlainText(input)
    /\ Count(input, "!") = 1
    /\ input[i] = "!"
    /\ (i = 1 \/ input[i - 1] # ")")

\* C2, as the code has it: the run of digits and "." before a "!" is rewritten
\* to fact(<run>) from its first digit on, the points before that digit and
\* every other character are copied unchanged; 5! is 120 and 0! is 1
C2_NumberFactorial ==
    /\ \A i \in 1..Len(input) :
          OneNumberBang(i) =>
             LET d == FirstDigit(input, RunStart(input, i), i)
             IN expr = IF d = 0 THEN input ELSE WithFact(input, d, i)
    /\ (pc = "done" /\ input = X_Fact5) => Returns(result, 120, 1)
    /\ (pc = "done" /\ input = X_Fact0) => Returns(result, 1, 1)

\* 5! has been evaluated
C2_Witness == pc = "done" /\ input = X_Fact5 /\ result.k = "val"

\* C2, as documented: the whole maximal run of digits and ".", a run that
\* begins with "." included, is rewritten to fact(<run>)
C2_Original ==
    /\ \A i \in 1..Len(input) :
          OneNumberBang(i) =>
             LET k == RunStart(input, i)
             IN expr = IF k = i THEN input ELSE WithFact(input, k, i)
    /\ (pc = "done" /\ input = X_Fact5) => Returns(result, 120, 1)
    /\ (pc = "done" /\ input = X_Fact0) => Returns(result, 1, 1)

\* a "!" of s that follows neither a number run nor a matched group
StrayBang(s) ==
    \E i \in 1..Len(s) :
        /\ s[i] = "!"
        /\ \/ i = 1
           \/ ~(IsDigit(s[i - 1]) \/ s[i - 1] \in {".", ")"})
           \/ s[i - 1] = ")" /\ ~\E k \in 1..(i - 2) : IsGroup(s, k, i - 1)

\* C3: an input with unbalanced parentheses or a stray "!" ends in the syntax
\* error, and the factorial conversion leaves unbalanced parentheses unbalanced
C3_SyntaxError ==
    /\ (pc = "done" /\ input # <<>> /\ (~Balanced(input) \/ StrayBang(input)))
          => result = SyntaxError
    /\ (pc = "factorial" /\ PlainText(input) /\ ~Balanced(input)) => ~Balanced(expr)

ArithChars == Digits \cup {".", "+", "-", "*", "/", "%", "(", ")", " "}

\* the reference: the tree of the text as written, each operator applied by
\* its own function
Reference(s, e) == CheckResult(Visit(AstParse(s).node, e))

\* C4: a valid expression of number literals and the operators + - * / // %
\* ** evaluates to what the reference evaluator gives; a % b is the remainder
C4_Arithmetic ==
    ( /\ pc = "done"
      /\ input # <<>>
      /\ \A i \in 1..Len(input) : input[i] \in ArithChars
      /\ AstParse(input).ok
      /\ Reference(input, ev).k # "beyond" )
    => result = Reference(input, ev)

\* what the two textual substitutions make of one character
GlyphOf(c) ==
    CASE c = "×" -> <<"*">> [] c = "÷" -> <<"/">> [] c = "^" -> <<"*", "*">>
      [] OTHER -> <<c>>

PercentOf(c) == IF c = "%" THEN <<"/", "1", "0", "0">> ELSE GlyphOf(c)

RECURSIVE Glyphs(_)
Glyphs(s) == IF s = <<>> THEN <<>> ELSE GlyphOf(Head(s)) \o Glyphs(Tail(s))

RECURSIVE Percents(_)
Percents(s) == IF s = <<>> THEN <<>> ELSE PercentOf(Head(s)) \o Percents(Tail(s))

C6_ComplexResult ==
    /\ (pc = "done" /\ val.k = "val") =>
          IF IsComplex(val.v) THEN result = ComplexError ELSE result.k = "val"
    /\ (pc = "done" /\ input = X_Root) => result = ComplexError
    /\ (pc = "done" /\ input = X_Sqrt) => result = Err("ValueError", "math domain error")

\* (-1)^0.5 has been refused as complex, with Ans = 2
C6_Witness ==
    pc = "done" /\ input = X_Root /\ result = ComplexError /\ ans = PyFloat(2, 1)

\* C6, as documented: sqrt(-1) too fails with "Complex results not supported."
C6_Original ==
    /\ (pc = "done" /\ val.k = "val") =>
          IF IsComplex(val.v) THEN result = ComplexError ELSE result.k = "val"
    /\ (pc = "done" /\ input = X_Sqrt) => result = ComplexError

\* an evaluation is between the construction of its evaluator and its return
Evaluating == pc \in {"eval", "glyphs", "percent", "factorial", "parsed", "visited"}

\* C7: through every evaluation the table in use wraps sin, cos and tan with
\* the conversion to radians, and asin, acos and atan with the conversion to
\* degrees, exactly when the angle mode is degrees; sin(30) is 0.5 in degree
\* mode, sin(pi/6) is 0.5 in radian mode
C7_TrigMode ==
    /\ Evaluating =>
          /\ ev.deg_mode = deg_mode
          /\ \A f \in {N_sin, N_cos, N_tan} :
                ev.funcs[f].wrap = IF deg_mode THEN "radians" ELSE "none"
          /\ \A f \in {N_asin, N_acos, N_atan} :
                ev.funcs[f].wrap = IF deg_mode THEN "degrees" ELSE "none"
    /\ (pc = "done" /\ input = X_Sin30 /\ ev.deg_mode) => Returns(result, 1, 2)
    /\ (pc = "done" /\ input = X_SinPi6 /\ ~ev.deg_mode) => Returns(result, 1, 2)
    /\ (pc = "done" /\ input = X_Asin /\ ev.deg_mode) => Returns(result, 30, 1)
    /\ (pc = "done" /\ input = X_Asin /\ ~ev.deg_mode) =>
          (result.k = "val" /\ result.v.u = "pi" /\ result.v.n = 1 /\ result.v.d = 6)

\* sin(pi/6) has been evaluated after a change to radian mode
C7_Witness ==
    pc = "done" /\ input = X_SinPi6 /\ ~deg_mode /\ ~ev.deg_mode /\ result.k = "val"

\* inputs holding a construct outside the whitelist
NotWhitelisted == {X_True, X_List, X_Compare, X_Tuple}

\* C8: an input with a construct outside the whitelist is rejected with an
\* error and never evaluates to a number
C8_Whitelist == (pc = "done" /\ input \in NotWhitelisted) => result.k = "err"

\* the node kinds visit has a branch for, below Expression
VisitKinds == {"Constant", "BinOp", "UnaryOp", "Call", "Name"}

\* C9: visiting a parsed node of any other kind fails with ValueError
\* "Unsupported syntax."
C9_UnsupportedSyntax ==
    (pc = "done" /\ node # <<>> /\ node[2][1] \notin VisitKinds)
    => result = Err("ValueError", "Unsupported syntax.")

\* the history line of the expression e and the value v
HistoryLine(e, v) == e \o <<" ", "=", " ">> \o Fmt(v)

\* C10: Ans is 0.0 until an evaluation by "=" succeeds; Ans and the history
\* change only in a step that evaluates the entry with success, Ans becoming
\* its result with the name Ans bound to the old Ans; a step that opens an
\* error box leaves entry, Ans and history alone, and so does a step that
\* changes the memory
C10_Ans ==
    /\ [](hist = <<>> => ans = PyFloat(0, 1))
    /\ [][ /\ (ans' # ans \/ hist' # hist) =>
                 /\ Strip(entry) # <<>>
                 /\ EvaluateSilent(entry, ans, deg_mode).k = "val"
                 /\ ans' = EvaluateSilent(entry, ans, deg_mode).v
                 /\ hist' = <<HistoryLine(Strip(entry), ans')>> \o hist
                 /\ entry' = Fmt(ans')
                 /\ ans_lbl' = Fmt(ans')
           /\ (entry = N_Ans /\ hist' # hist) => ans' = ans
           /\ (NoOpenDialog /\ dialog' # NoDialog) => UNCHANGED <<entry, ans, hist>>
           /\ memory' # memory => UNCHANGED <<entry, ans, hist>>
         ]_vars

\* "=" has failed after two evaluations succeeded
C10_Witness ==
    Len(hist) = 2 /\ dialog.title = "Error" /\ ans # PyFloat(0, 1)

====
